---------------------------- MODULE Spec2Model ----------------------------
(***************************************************************************)
(* Model of the email validation pipeline of app.py: the request handler   *)
(* validate_api and the stage functions it calls.  Strings are sequences   *)
(* of one-character strings so that strip(), lower(), split('@') and the   *)
(* format pattern are computed, not assumed.  The resolver, the TCP layer  *)
(* and the SMTP peer are the environment: every answer they can give is a  *)
(* nondeterministic choice of the step that asks.                          *)
(***************************************************************************)
EXTENDS Integers, Sequences, FiniteSets, TLC

VARIABLES
    pc,               \* position of the handler
    body,             \* the request body as request.get_json() sees it
    email,            \* local `email` of validate_api (stripped)
    result,           \* local dict `result` of validate_api
    response,         \* the dict handed to jsonify(); <<>> until the handler returns
    netlog,           \* network operations performed so far, in order
    dns_answer,       \* what the resolver answered in validate_email_domain
    mx_lookup,        \* advanced: how get_mx_record obtained mx_host
    mx_host,          \* advanced: local `mx_host`
    mail_server,      \* basic: local `mail_server` (<<>> is None)
    mx_idx,           \* basic: loop index of get_mx_records over mail_prefixes
    mx_answers,       \* basic: the resolver's answers to get_mx_records, in order
    server_sock,      \* advanced: state of the socket owned by `server`
    sock,             \* basic: state of the socket `sock`
    exc,              \* exception in flight inside validate_email_smtp_improved
    raised,           \* texts of the exceptions raised so far in the probe
    rcpt_code,        \* advanced: reply code of RCPT TO (0: no reply received)
    rcpt_text_ok,     \* advanced: the RCPT reply text decodes as UTF-8
    quit_outcome,     \* advanced: outcome of the server.quit() of line 73
    connect_outcome,  \* basic: outcome of sock.connect_ex
    smtp_valid,       \* local `smtp_valid` of validate_api
    smtp_msg          \* local `smtp_msg` of validate_api

vars == <<pc, body, email, result, response, netlog, dns_answer, mx_lookup,
          mx_host, mail_server, mx_idx, mx_answers, server_sock, sock, exc, raised,
          rcpt_code, rcpt_text_ok, quit_outcome, connect_outcome,
          smtp_valid, smtp_msg>>

-----------------------------------------------------------------------------
(* Characters and strings *)

UpperCase == <<"A","B","C","D","E","F","G","H","I","J","K","L","M","N","O","P","Q","R","S","T","U","V","W","X","Y","Z">>

LowerCase == <<"a","b","c","d","e","f","g","h","i","j","k","l","m","n","o","p","q","r","s","t","u","v","w","x","y","z">>

Digits == {"0","1","2","3","4","5","6","7","8","9"}

Letters == {UpperCase[i] : i \in 1..26} \cup {LowerCase[i] : i \in 1..26}

\* the class [a-zA-Z0-9._%+-] of the pattern
LocalChars == Letters \cup Digits \cup {".", "_", "%", "+", "-"}

\* the class [a-zA-Z0-9.-] of the pattern
DomainChars == Letters \cup Digits \cup {".", "-"}

Whitespace == {" "}

\* str.lower() on one character
LowerChar(c) ==
    IF \E i \in 1..26 : UpperCase[i] = c
    THEN LowerCase[CHOOSE i \in 1..26 : UpperCase[i] = c]
    ELSE c

\* str.lower()
lower(s) == [i \in 1..Len(s) |-> LowerChar(s[i])]

\* str.strip(): drop the whitespace at both ends
RECURSIVE lstrip(_)
lstrip(s) == IF s # <<>> /\ Head(s) \in Whitespace THEN lstrip(Tail(s)) ELSE s

RECURSIVE rstrip(_)
rstrip(s) ==
    IF s # <<>> /\ s[Len(s)] \in Whitespace
    THEN rstrip(SubSeq(s, 1, Len(s) - 1))
    ELSE s

strip(s) == rstrip(lstrip(s))

AllIn(s, chars) == \A i \in 1..Len(s) : s[i] \in chars

\* positions of '@' in s
AtPositions(s) == {i \in 1..Len(s) : s[i] = "@"}

Min(S) == CHOOSE x \in S : \A y \in S : x <= y

\* email.split('@')[1]: the text between the first '@' and the next one (or
\* the end).  Only called on strings holding an '@'.
split_at_1(s) ==
    LET first == Min(AtPositions(s))
        later == {i \in AtPositions(s) : i > first}
        stop  == IF later = {} THEN Len(s) + 1 ELSE Min(later)
    IN  SubSeq(s, first + 1, stop - 1)

-----------------------------------------------------------------------------
(* Pure stages *)

\* re.match(r'^[a-zA-Z0-9._%+-]+@[a-zA-Z0-9.-]+\.[a-zA-Z]{2,}$', email):
\* i is the '@', j the dot that starts the final all-letter suffix.
validate_email_format(s) ==
    \E i \in 2..Len(s) :
        /\ s[i] = "@"
        /\ AllIn(SubSeq(s, 1, i - 1), LocalChars)
        /\ \E j \in (i + 2)..(Len(s) - 2) :
              /\ s[j] = "."
              /\ AllIn(SubSeq(s, i + 1, j - 1), DomainChars)
              /\ AllIn(SubSeq(s, j + 1, Len(s)), Letters)

\* trusted_domains of validate_email_smtp_improved
trusted_domains_improved ==
    { <<"g","m","a","i","l",".","c","o","m">>,
      <<"g","o","o","g","l","e","m","a","i","l",".","c","o","m">>,
      <<"o","u","t","l","o","o","k",".","c","o","m">>,
      <<"h","o","t","m","a","i","l",".","c","o","m">>,
      <<"y","a","h","o","o",".","c","o","m">>,
      <<"a","p","p","l","e",".","c","o","m">>,
      <<"i","c","l","o","u","d",".","c","o","m">>,
      <<"m","i","c","r","o","s","o","f","t",".","c","o","m">>,
      <<"g","o","o","g","l","e",".","c","o","m">>,
      <<"a","m","a","z","o","n",".","c","o","m">>,
      <<"f","a","c","e","b","o","o","k",".","c","o","m">>,
      <<"t","w","i","t","t","e","r",".","c","o","m">>,
      <<"l","i","n","k","e","d","i","n",".","c","o","m">>,
      <<"g","i","t","h","u","b",".","c","o","m">> }

\* trusted_domains of validate_email_smtp_basic_fixed: the same fourteen and
\* two more
trusted_domains_basic ==
    trusted_domains_improved \cup
    { <<"p","r","o","t","o","n","m","a","i","l",".","c","o","m">>,
      <<"z","o","h","o",".","c","o","m">> }

disposable_domains ==
    { <<"1","0","m","i","n","u","t","e","m","a","i","l",".","c","o","m">>,
      <<"g","u","e","r","r","i","l","l","a","m","a","i","l",".","c","o","m">>,
      <<"m","a","i","l","i","n","a","t","o","r",".","c","o","m">>,
      <<"y","o","p","m","a","i","l",".","c","o","m">>,
      <<"t","e","m","p","-","m","a","i","l",".","o","r","g">>,
      <<"t","h","r","o","w","a","w","a","y",".","e","m","a","i","l">>,
      <<"t","e","m","p","m","a","i","l",".","c","o","m">>,
      <<"d","i","s","p","o","s","t","a","b","l","e",".","c","o","m">>,
      <<"2","0","m","i","n","u","t","e","m","a","i","l",".","c","o","m">>,
      <<"t","r","a","s","h","m","a","i","l",".","c","o","m">>,
      <<"s","h","a","r","k","l","a","s","e","r","s",".","c","o","m">>,
      <<"g","r","r",".","l","a">> }

\* a membership test that forgets lower()
is_disposable_email_exact(domain) == domain \in disposable_domains

is_disposable_email(domain) == lower(domain) \in disposable_domains

is_trusted_improved(domain) == lower(domain) \in trusted_domains_improved

is_trusted_basic(domain) == lower(domain) \in trusted_domains_basic

-----------------------------------------------------------------------------
(* Messages and exceptions *)

\* A formatted message: the emoji that validate_api puts in front (named, ""
\* when there is none), the fixed text, the address, domain or host
\* interpolated into it, the reply code interpolated (0: none) and the
\* interpolated str(e) or reply text ("": none).
Msg(icon, text, arg, code, detail) ==
    [icon |-> icon, text |-> text, arg |-> arg, code |-> code, detail |-> detail]

\* f'<icon> {msg}'
with_icon(icon, m) == [m EXCEPT !.icon = icon]

Exc(type, text) == [type |-> type, text |-> text]

NoExc == Exc("none", "")

GaiNoName == Exc("gaierror", "[Errno -2] Name or service not known")

GaiAgain == Exc("gaierror", "[Errno -3] Temporary failure in name resolution")

\* getaddrinfo's EAI_SYSTEM is raised as a plain OSError, not as gaierror
ResolverOSError == Exc("OSError", "[Errno 5] Input/output error")

SocketTimeout == Exc("timeout", "timed out")

ConnRefused == Exc("ConnectionRefusedError", "[Errno 111] Connection refused")

\* raised by smtplib's send()/getreply() after they have closed the socket
Disconnected == Exc("SMTPServerDisconnected", "Connection unexpectedly closed")

\* raised by smtplib's send() when the SMTP object holds no socket
NotConnected == Exc("SMTPServerDisconnected", "please run connect() first")

\* raised by smtplib's getreply() after it has closed the socket
LineTooLong == Exc("SMTPResponseException", "(500, 'Line too long.')")

DecodeError == Exc("UnicodeDecodeError", "'utf-8' codec can't decode byte")

NoSocket == Exc("OSError", "[Errno 24] Too many open files")

\* what socket.gethostbyname can answer
ResolveAnswers == {"ok", "EAI_NONAME", "EAI_AGAIN", "EAI_SYSTEM"}

ResolveExc(answer) ==
    CASE answer = "EAI_NONAME" -> GaiNoName
      [] answer = "EAI_AGAIN"  -> GaiAgain
      [] answer = "EAI_SYSTEM" -> ResolverOSError
      [] OTHER                 -> NoExc

NetOp(op, host) == [op |-> op, host |-> host]

-----------------------------------------------------------------------------
(* Requests *)

\* longest local part of the enumerated addresses
MaxLocalLen == 1

\* characters the enumerated local parts are made of; "!" is outside the
\* pattern's class
LocalAlphabet == {"a", "Z", "%", "!"}

LocalInputs == UNION {[1..k -> LocalAlphabet] : k \in 0..MaxLocalLen}

\* domain parts of the enumerated addresses: trusted at both levels (two
\* spellings), trusted at the basic level only, disposable (two spellings and
\* a short one), unknown (three), and three the pattern rejects
DomainInputs ==
    { <<"g","m","a","i","l",".","c","o","m">>,
      <<"G","M","a","i","l",".","C","o","m">>,
      <<"p","r","o","t","o","n","m","a","i","l",".","c","o","m">>,
      <<"m","a","i","l","i","n","a","t","o","r",".","c","o","m">>,
      <<"M","a","i","l","i","n","a","t","o","r",".","C","O","M">>,
      <<"g","r","r",".","l","a">>,
      <<"e","x","a","m","p","l","e",".","o","r","g">>,
      <<"E","x","a","m","p","l","e",".","O","R","G">>,
      <<"s","h","o","p",".","e","x","a","m","p","l","e",".","o","r","g">>,
      <<"l","o","c","a","l","h","o","s","t">>,
      <<"e","x","a","m","p","l","e",".","c">>,
      <<"e","x","a","m","p","l","e",".","o","1","g">> }

PadInputs == {<<>>, <<" ">>}

SeparatorInputs == {<<"@">>, <<>>}

\* the strings a request can carry as "email"
EmailInputs ==
    {<<>>} \cup
    { p \o l \o a \o d \o p :
        p \in PadInputs, l \in LocalInputs, a \in SeparatorInputs, d \in DomainInputs }

LevelInputs == {"basic", "advanced", "strict"}

Body(kind, email_kind, e, level_kind, level) ==
    [kind |-> kind, email_kind |-> email_kind, email |-> e,
     level_kind |-> level_kind, level |-> level]

NoBody == Body("none", "absent", <<>>, "absent", "")

\* what request.get_json() can meet: a body that is no JSON (it raises), the
\* JSON null, a JSON array, and JSON objects whose "email" is absent, a
\* number, null or a string and whose "validation_level" is absent or a string
BodyInputs ==
    { Body(k, "absent", <<>>, "absent", "") : k \in {"unparsable", "null", "array"} }
    \cup
    { Body("object", ek, <<>>, "absent", "") : ek \in {"absent", "number", "null"} }
    \cup
    { Body("object", "string", e, "absent", "") : e \in EmailInputs }
    \cup
    { Body("object", "string", e, "string", l) : e \in EmailInputs, l \in LevelInputs }

\* str(e) of the exception lines 522-523 raise on this body ("" when none)
parse_error(b) ==
    CASE b.kind = "unparsable" -> "400 Bad Request: Failed to decode JSON object"
      [] b.kind = "null" -> "'NoneType' object has no attribute 'get'"
      [] b.kind = "array" -> "'list' object has no attribute 'get'"
      [] b.kind = "object" /\ b.email_kind = "number" ->
             "'int' object has no attribute 'strip'"
      [] b.kind = "object" /\ b.email_kind = "null" ->
             "'NoneType' object has no attribute 'strip'"
      [] OTHER -> ""

\* the dict of line 526
new_result(e, level) ==
    [email |-> e, valid |-> FALSE, messages |-> <<>>, validation_level |-> level]

\* result['messages'].append(m), with the append replaced by an assignment
add_message_overwrite(r, m) == [r EXCEPT !.messages = <<m>>]

\* result['messages'].append(m)
add_message(r, m) == [r EXCEPT !.messages = Append(@, m)]

\* the dict of line 573
error_response(text) ==
    [valid |-> FALSE, messages |-> <<Msg("cross", "Validation error", <<>>, 0, text)>>]

NoMsg == Msg("", "", <<>>, 0, "")

\* email.split('@')[1] of the current request
Domain == split_at_1(email)

probe_vars == <<mx_lookup, mx_host, mail_server, mx_idx, mx_answers, server_sock, sock, exc,
                raised, rcpt_code, rcpt_text_ok, quit_outcome, connect_outcome,
                smtp_valid, smtp_msg>>

Init ==
    /\ pc = "idle"
    /\ body = NoBody
    /\ email = <<>>
    /\ result = new_result(<<>>, "basic")
    /\ response = <<>>
    /\ netlog = <<>>
    /\ dns_answer = "none"
    /\ mx_lookup = "none"
    /\ mx_host = <<>>
    /\ mail_server = <<>>
    /\ mx_idx = 1
    /\ mx_answers = <<>>
    /\ server_sock = "none"
    /\ sock = "none"
    /\ exc = NoExc
    /\ raised = {}
    /\ rcpt_code = 0
    /\ rcpt_text_ok = TRUE
    /\ quit_outcome = "none"
    /\ connect_outcome = "none"
    /\ smtp_valid = FALSE
    /\ smtp_msg = NoMsg

-----------------------------------------------------------------------------
(* validate_api, lines 519-551 *)

\* a POST to /api/validate arrives
receive_request ==
    /\ pc = "idle"
    /\ \E b \in BodyInputs : body' = b
    /\ pc' = "parse"
    /\ UNCHANGED <<email, result, response, netlog, dns_answer, probe_vars>>

\* lines 521-530 and the handler of 572-573 for what they raise
parse_request ==
    /\ pc = "parse"
    /\ IF parse_error(body) # ""
       THEN /\ response' = error_response(parse_error(body))
            /\ pc' = "done"
            /\ UNCHANGED <<email, result>>
       ELSE LET e     == IF body.email_kind = "absent" THEN <<>> ELSE strip(body.email)
                level == IF body.level_kind = "absent" THEN "basic" ELSE body.level
                r     == new_result(e, level)
            IN  /\ email' = e
                /\ IF e = <<>>
                   THEN /\ result' = add_message(r,
                               Msg("cross", "Please enter an email address", <<>>, 0, ""))
                        /\ response' = result'
                        /\ pc' = "done"
                   ELSE /\ result' = r
                        /\ pc' = "format"
                        /\ UNCHANGED response
    /\ UNCHANGED <<body, netlog, dns_answer, probe_vars>>

\* lines 532-537
format_stage ==
    /\ pc = "format"
    /\ IF ~validate_email_format(email)
       THEN /\ result' = add_message(result,
                   Msg("cross", "Invalid email format", <<>>, 0, ""))
            /\ response' = result'
            /\ pc' = "done"
       ELSE /\ result' = add_message(result,
                   Msg("check", "Email format is valid", <<>>, 0, ""))
            /\ pc' = "disposable"
            /\ UNCHANGED response
    /\ UNCHANGED <<body, email, netlog, dns_answer, probe_vars>>

\* lines 539-544
disposable_stage ==
    /\ pc = "disposable"
    /\ IF is_disposable_email(Domain)
       THEN /\ result' = add_message(result,
                   Msg("warning",
                       "Disposable email detected - not suitable for business",
                       <<>>, 0, ""))
            /\ response' = result'
            /\ pc' = "done"
       ELSE /\ pc' = "domain"
            /\ UNCHANGED <<result, response>>
    /\ UNCHANGED <<body, email, netlog, dns_answer, probe_vars>>

\* validate_email_domain (lines 15-24) on the resolver's answer
validate_email_domain(domain, answer) ==
    CASE answer = "ok" ->
             [valid |-> TRUE,
              msg |-> Msg("", "Domain exists and is reachable", domain, 0, "")]
      [] ResolveExc(answer).type = "gaierror" ->
             [valid |-> FALSE, msg |-> Msg("", "Domain does not exist", <<>>, 0, "")]
      [] OTHER ->
             [valid |-> FALSE,
              msg |-> Msg("", "Domain check error", <<>>, 0, ResolveExc(answer).text)]

\* lines 546-551
domain_stage ==
    /\ pc = "domain"
    /\ \E answer \in ResolveAnswers :
          LET d == validate_email_domain(Domain, answer)
          IN  /\ dns_answer' = answer
              /\ netlog' = Append(netlog, NetOp("gethostbyname", Domain))
              /\ result' = add_message(result, with_icon("antenna", d.msg))
              /\ IF d.valid
                 THEN pc' = "probe" /\ UNCHANGED response
                 ELSE pc' = "done" /\ response' = result'
    /\ UNCHANGED <<body, email, probe_vars>>

\* lines 553-559, up to the call of the probe
probe_dispatch ==
    /\ pc = "probe"
    /\ IF result.validation_level = "advanced"
       THEN /\ result' = add_message(result,
                   Msg("magnifier",
                       "Performing advanced SMTP mailbox verification...", <<>>, 0, ""))
            /\ pc' = "adv_trust"
       ELSE /\ result' = add_message(result,
                   Msg("envelope",
                       "Performing basic mail server verification...", <<>>, 0, ""))
            /\ pc' = "basic_trust"
    /\ UNCHANGED <<body, email, response, netlog, dns_answer, probe_vars>>

-----------------------------------------------------------------------------
(* validate_email_smtp_improved, lines 36-103 *)

api_vars == <<body, email, result, response, dns_answer>>

basic_vars == <<mail_server, mx_idx, mx_answers, sock, connect_outcome>>

\* the probe returns (valid, msg) to validate_api
probe_returns(valid, msg) ==
    /\ smtp_valid' = valid
    /\ smtp_msg' = msg
    /\ pc' = "finish"

\* an exception leaves the inner try body of lines 63-83
inner_raise(e) ==
    /\ exc' = e
    /\ raised' = raised \cup {e.text}
    /\ pc' = "adv_except"

\* lines 38-49
improved_trust ==
    /\ pc = "adv_trust"
    /\ IF is_trusted_improved(Domain)
       THEN probe_returns(TRUE, Msg("", "Trusted domain", Domain, 0, ""))
       ELSE pc' = "adv_mx" /\ UNCHANGED <<smtp_valid, smtp_msg>>
    /\ UNCHANGED <<api_vars, netlog, basic_vars, mx_lookup, mx_host, server_sock,
                   exc, raised, rcpt_code, rcpt_text_ok, quit_outcome>>

\* the host an MX answer names for the domain
MxExchange(domain) == <<"m","x","-","i","n",".">> \o lower(domain)

\* get_mx_record (lines 26-34) on what the import and the MX query do
get_mx_record(domain, how) ==
    IF how = "mx_record" THEN MxExchange(domain) ELSE <<"m","a","i","l",".">> \o domain

\* lines 52-61: the MX query, or its fallback, and the unconnected SMTP object
improved_get_mx ==
    /\ pc = "adv_mx"
    /\ \E how \in {"mx_record", "mx_query_failed", "no_dns_module"} :
          /\ mx_lookup' = how
          /\ mx_host' = get_mx_record(Domain, how)
          /\ netlog' = IF how = "no_dns_module" THEN netlog
                       ELSE Append(netlog, NetOp("resolve_mx", Domain))
    /\ server_sock' = "none"
    /\ pc' = "adv_connect"
    /\ UNCHANGED <<api_vars, basic_vars, exc, raised, rcpt_code, rcpt_text_ok,
                   quit_outcome, smtp_valid, smtp_msg>>

\* line 65: server.connect(mx_host, 25).  The host may not resolve, the TCP
\* connect may time out or be refused (no socket is kept), the greeting may
\* never come (smtplib closes the socket and raises), or a greeting of any
\* code arrives (the socket stays open).
improved_connect ==
    /\ pc = "adv_connect"
    /\ netlog' = Append(netlog, NetOp("connect", mx_host))
    /\ \E o \in {"greeted", "gaierror", "timeout", "refused", "disconnected"} :
          CASE o = "greeted" ->
                  /\ server_sock' = "open"
                  /\ pc' = "adv_helo"
                  /\ UNCHANGED <<exc, raised>>
            [] o = "disconnected" ->
                  /\ server_sock' = "closed"
                  /\ inner_raise(Disconnected)
            [] OTHER ->
                  /\ server_sock' = "none"
                  /\ inner_raise(CASE o = "gaierror" -> GaiNoName
                                   [] o = "timeout"  -> SocketTimeout
                                   [] OTHER          -> ConnRefused)
    /\ UNCHANGED <<api_vars, basic_vars, mx_lookup, mx_host, rcpt_code, rcpt_text_ok,
                   quit_outcome, smtp_valid, smtp_msg>>

\* what a command on a connected SMTP object can end in: a reply, or one of
\* the exceptions smtplib raises after closing the socket
CommandOutcomes == {"reply", "disconnected", "line_too_long"}

CommandExc(o) == IF o = "disconnected" THEN Disconnected ELSE LineTooLong

\* server.helo() (line 66) and server.mail(...) (line 69): the reply code is
\* not looked at
smtp_command(op, here, next) ==
    /\ pc = here
    /\ netlog' = Append(netlog, NetOp(op, mx_host))
    /\ \E o \in CommandOutcomes :
          IF o = "reply"
          THEN pc' = next /\ UNCHANGED <<server_sock, exc, raised>>
          ELSE server_sock' = "closed" /\ inner_raise(CommandExc(o))
    /\ UNCHANGED <<api_vars, basic_vars, mx_lookup, mx_host, rcpt_code, rcpt_text_ok,
                   quit_outcome, smtp_valid, smtp_msg>>

improved_helo == smtp_command("helo", "adv_helo", "adv_mail")

improved_mail == smtp_command("mail", "adv_mail", "adv_rcpt")

\* reply codes the server may give to RCPT TO
RcptCodes == {250, 251, 450, 451, 452, 550, 551, 553, 554}

\* line 72: code, message = server.rcpt(email)
improved_rcpt ==
    /\ pc = "adv_rcpt"
    /\ netlog' = Append(netlog, NetOp("rcpt", mx_host))
    /\ \/ \E code \in RcptCodes, ok \in BOOLEAN :
             /\ rcpt_code' = code
             /\ rcpt_text_ok' = ok
             /\ pc' = "adv_quit"
             /\ UNCHANGED <<server_sock, exc, raised>>
       \/ \E o \in CommandOutcomes \ {"reply"} :
             /\ server_sock' = "closed"
             /\ inner_raise(CommandExc(o))
             /\ UNCHANGED <<rcpt_code, rcpt_text_ok>>
    /\ UNCHANGED <<api_vars, basic_vars, mx_lookup, mx_host, quit_outcome,
                   smtp_valid, smtp_msg>>

\* smtplib's SMTP.quit() on a socket in state s: with no socket send() raises
\* at once; with one, the QUIT is answered (and close() follows) or an
\* exception is raised after the socket was closed.  Either way no socket is
\* left open.
QuitOutcomes(s) ==
    IF s = "open" THEN {"reply", "disconnected", "line_too_long"} ELSE {"not_connected"}

QuitExc(o) ==
    CASE o = "not_connected" -> NotConnected
      [] o = "disconnected"  -> Disconnected
      [] OTHER               -> LineTooLong

AfterQuit(s) == IF s = "open" THEN "closed" ELSE s

\* line 73: server.quit(), before the reply code is looked at
improved_quit ==
    /\ pc = "adv_quit"
    /\ netlog' = Append(netlog, NetOp("quit", mx_host))
    /\ \E o \in QuitOutcomes(server_sock) :
          /\ quit_outcome' = o
          /\ server_sock' = AfterQuit(server_sock)
          /\ IF o = "reply"
             THEN pc' = "adv_interpret" /\ UNCHANGED <<exc, raised>>
             ELSE inner_raise(QuitExc(o))
    /\ UNCHANGED <<api_vars, basic_vars, mx_lookup, mx_host, rcpt_code, rcpt_text_ok,
                   smtp_valid, smtp_msg>>

\* lines 76-83 with the temporary codes answered True, the leniency the basic
\* probe shows to a failed connection
rcpt_verdict_lenient(code, addr) ==
    CASE code = 250 ->
             [valid |-> TRUE, msg |-> Msg("", "Mailbox verified", addr, 0, "")]
      [] code \in {550, 551, 553} ->
             [valid |-> FALSE, msg |-> Msg("", "Mailbox does not exist", addr, 0, "")]
      [] code \in {450, 451, 452} ->
             [valid |-> TRUE,
              msg |-> Msg("", "Temporary issue with mailbox", addr, 0, "")]
      [] OTHER ->
             [valid |-> FALSE,
              msg |-> Msg("", "SMTP verification failed (code)", <<>>, code,
                          "<reply text>")]

\* lines 76-83: the verdict on the reply code of RCPT TO
rcpt_verdict(code, addr) ==
    CASE code = 250 ->
             [valid |-> TRUE, msg |-> Msg("", "Mailbox verified", addr, 0, "")]
      [] code \in {550, 551, 553} ->
             [valid |-> FALSE, msg |-> Msg("", "Mailbox does not exist", addr, 0, "")]
      [] code \in {450, 451, 452} ->
             [valid |-> FALSE,
              msg |-> Msg("", "Temporary issue with mailbox", addr, 0, "")]
      [] OTHER ->
             [valid |-> FALSE,
              msg |-> Msg("", "SMTP verification failed (code)", <<>>, code,
                          "<reply text>")]

\* the branch of line 83 is the only one that decodes the reply text
decodes_reply(code) == code \notin {250, 550, 551, 553, 450, 451, 452}

\* lines 75-83
improved_interpret ==
    /\ pc = "adv_interpret"
    /\ IF decodes_reply(rcpt_code) /\ ~rcpt_text_ok
       THEN inner_raise(DecodeError) /\ UNCHANGED <<smtp_valid, smtp_msg>>
       ELSE /\ probe_returns(rcpt_verdict(rcpt_code, email).valid,
                             rcpt_verdict(rcpt_code, email).msg)
            /\ UNCHANGED <<exc, raised>>
    /\ UNCHANGED <<api_vars, netlog, basic_vars, mx_lookup, mx_host, server_sock,
                   rcpt_code, rcpt_text_ok, quit_outcome>>

\* lines 98-103: the handlers of the outer try, for an exception e that left
\* a handler of the inner one
outer_except(e, domain) ==
    CASE e.type = "timeout" ->
             Msg("", "SMTP server timeout for domain", domain, 0, "")
      [] e.type = "gaierror" ->
             Msg("", "Cannot connect to mail server for domain", domain, 0, "")
      [] OTHER ->
             Msg("", "SMTP validation error", <<>>, 0, e.text)

\* lines 85-103: the handlers of the inner try.  Those for
\* SMTPServerDisconnected and SMTPRecipientsRefused call server.quit()
\* unguarded, so what it raises goes to the outer handlers; the last one
\* guards it.
improved_except ==
    /\ pc = "adv_except"
    /\ \E o \in QuitOutcomes(server_sock) :
          /\ netlog' = IF server_sock = "open"
                       THEN Append(netlog, NetOp("quit", mx_host)) ELSE netlog
          /\ server_sock' = AfterQuit(server_sock)
          /\ IF exc.type \in {"SMTPServerDisconnected", "SMTPRecipientsRefused"}
             THEN IF o = "reply"
                  THEN /\ probe_returns(FALSE,
                              IF exc.type = "SMTPServerDisconnected"
                              THEN Msg("", "SMTP server disconnected during verification",
                                       <<>>, 0, "")
                              ELSE Msg("", "Mailbox rejected", email, 0, ""))
                       /\ UNCHANGED raised
                  ELSE /\ probe_returns(FALSE, outer_except(QuitExc(o), Domain))
                       /\ raised' = raised \cup {QuitExc(o).text}
             ELSE /\ probe_returns(FALSE, Msg("", "SMTP check failed", <<>>, 0, exc.text))
                  /\ raised' = IF o = "reply" THEN raised
                               ELSE raised \cup {QuitExc(o).text}
    /\ exc' = NoExc
    /\ UNCHANGED <<api_vars, basic_vars, mx_lookup, mx_host, rcpt_code, rcpt_text_ok,
                   quit_outcome>>

-----------------------------------------------------------------------------
(* validate_email_smtp_basic_fixed, lines 133-179, and get_mx_records *)

adv_vars == <<mx_lookup, mx_host, server_sock, exc, raised, rcpt_code,
              rcpt_text_ok, quit_outcome>>

\* lines 135-146
basic_trust ==
    /\ pc = "basic_trust"
    /\ IF is_trusted_basic(Domain)
       THEN probe_returns(TRUE, Msg("", "Trusted domain", Domain, 0, ""))
       ELSE pc' = "basic_mx" /\ UNCHANGED <<smtp_valid, smtp_msg>>
    /\ UNCHANGED <<api_vars, netlog, basic_vars, adv_vars>>

\* mail_prefixes of get_mx_records (lines 113-119)
mail_prefixes(domain) ==
    << <<"m","a","i","l",".">> \o domain,
       <<"s","m","t","p",".">> \o domain,
       <<"m","x",".">> \o domain,
       <<"m","x","1",".">> \o domain,
       domain >>

\* line 174 answering True, as line 179 does
no_mail_server_lenient(domain) ==
    [valid |-> TRUE, msg |-> Msg("", "No mail server found for domain", domain, 0, "")]

\* line 174: get_mx_records found nothing
no_mail_server(domain) ==
    [valid |-> FALSE, msg |-> Msg("", "No mail server found for domain", domain, 0, "")]

\* one iteration of the loop of get_mx_records (lines 121-131), called at
\* line 151: the hostname resolves and is returned; or gaierror, and the loop
\* goes on (None after the last hostname); or another exception, which the
\* handler of line 130 turns into None at once.  None takes line 174.
get_mx_records_try ==
    /\ pc = "basic_mx"
    /\ LET host == mail_prefixes(Domain)[mx_idx]
       IN  /\ netlog' = Append(netlog, NetOp("gethostbyname", host))
           /\ \E answer \in ResolveAnswers :
                 /\ mx_answers' = Append(mx_answers, answer)
                 /\ CASE answer = "ok" ->
                         /\ mail_server' = host
                         /\ pc' = "basic_connect"
                         /\ UNCHANGED <<mx_idx, smtp_valid, smtp_msg>>
                   [] ResolveExc(answer).type = "gaierror"
                         /\ mx_idx < Len(mail_prefixes(Domain)) ->
                         /\ mx_idx' = mx_idx + 1
                         /\ UNCHANGED <<pc, mail_server, smtp_valid, smtp_msg>>
                   [] OTHER ->
                         /\ probe_returns(no_mail_server(Domain).valid,
                                          no_mail_server(Domain).msg)
                         /\ UNCHANGED <<mx_idx, mail_server>>
    /\ UNCHANGED <<api_vars, adv_vars, sock, connect_outcome>>

\* what lines 157-160 can do: the socket cannot be created; connect_ex
\* returns 0; connect_ex returns an error number; connect_ex raises (the
\* hostname no longer resolves)
ConnectOutcomes == {"no_socket", "connected", "errno", "gaierror"}

\* lines 162-171 with a failed connection counted as a failure
connect_verdict_strict(host, o) ==
    IF o = "connected"
    THEN [valid |-> TRUE, msg |-> Msg("", "Mail server found and accessible", host, 0, "")]
    ELSE [valid |-> FALSE,
          msg |-> Msg("", "Domain has mail server configured (port 25 may be blocked)",
                      host, 0, "")]

\* lines 162-171: the verdict on the connection attempt
connect_verdict(host, o) ==
    CASE o = "connected" ->
             [valid |-> TRUE,
              msg |-> Msg("", "Mail server found and accessible", host, 0, "")]
      [] o = "errno" ->
             [valid |-> TRUE,
              msg |-> Msg("", "Domain has mail server configured (port 25 may be blocked)",
                          host, 0, "")]
      [] OTHER ->
             [valid |-> TRUE,
              msg |-> Msg("", "Mail server found (connection test failed)", host, 0,
                          IF o = "gaierror" THEN GaiNoName.text ELSE NoSocket.text)]

\* the state of `sock` when lines 155-171 return: sock.close() of line 160
\* runs only when connect_ex returned; when connect_ex raised, the handler of
\* line 169 returns without closing the socket line 157 created
sock_after_connect(o) ==
    CASE o = "no_socket" -> "none"
      [] o \in {"connected", "errno"} -> "closed"
      [] OTHER -> "open"

\* lines 153-171
basic_connect ==
    /\ pc = "basic_connect"
    /\ \E o \in ConnectOutcomes :
          /\ connect_outcome' = o
          /\ netlog' = IF o = "no_socket" THEN netlog
                       ELSE Append(netlog, NetOp("connect", mail_server))
          /\ sock' = sock_after_connect(o)
          /\ probe_returns(connect_verdict(mail_server, o).valid,
                           connect_verdict(mail_server, o).msg)
    /\ UNCHANGED <<api_vars, adv_vars, mail_server, mx_idx, mx_answers>>

\* The socket that line 171 left unclosed is closed only when the runtime
\* finalizes the unreferenced object, at a time the program does not choose.
socket_finalized ==
    /\ pc \in {"finish", "done"}
    /\ sock = "open"
    /\ sock' = "closed"
    /\ UNCHANGED <<pc, api_vars, netlog, adv_vars, mail_server, mx_idx, mx_answers,
                   connect_outcome, smtp_valid, smtp_msg>>

-----------------------------------------------------------------------------
(* validate_api, lines 561-570 *)

finish ==
    /\ pc = "finish"
    /\ LET r1 == add_message(result, with_icon("envelope", smtp_msg))
           r2 == IF ~smtp_valid THEN r1
                 ELSE add_message([r1 EXCEPT !.valid = TRUE],
                        IF result.validation_level = "advanced"
                        THEN Msg("party",
                                 "Email verified - mailbox exists and can receive mail!",
                                 <<>>, 0, "")
                        ELSE Msg("party", "Email appears to be valid!", <<>>, 0, ""))
       IN  /\ result' = r2
           /\ response' = r2
    /\ pc' = "done"
    /\ UNCHANGED <<body, email, netlog, dns_answer, probe_vars>>

Next ==
    \/ receive_request
    \/ parse_request
    \/ format_stage
    \/ disposable_stage
    \/ domain_stage
    \/ probe_dispatch
    \/ improved_trust
    \/ improved_get_mx
    \/ improved_connect
    \/ improved_helo
    \/ improved_mail
    \/ improved_rcpt
    \/ improved_quit
    \/ improved_interpret
    \/ improved_except
    \/ basic_trust
    \/ get_mx_records_try
    \/ basic_connect
    \/ socket_finalized
    \/ finish

Spec == Init /\ [][Next]_vars

-----------------------------------------------------------------------------
(* Properties *)

Returned == pc = "done"

\* the messages of the request: those of the response once there is one
Messages == IF Returned THEN response.messages ELSE result.messages

Last(seq) == seq[Len(seq)]

IsPrefix(a, b) == Len(a) <= Len(b) /\ SubSeq(b, 1, Len(a)) = a

\* the request carried a string that passed the format pattern
FormatValid == email # <<>> /\ validate_email_format(email)

InDisposableList == FormatValid /\ lower(Domain) \in disposable_domains

\* trusted at both levels
InTrustedList == FormatValid /\ lower(Domain) \in trusted_domains_improved

Advanced == result.validation_level = "advanced"

\* C1: a format-valid address whose domain, lower-cased, is in the trusted
\* list is answered valid=true with no domain-existence outcome among the
\* messages and no network operation performed, at either level and whatever
\* the resolver answers.
C1_TrustedSkipsNetwork ==
    (Returned /\ InTrustedList) =>
        /\ response.valid
        /\ netlog = <<>>
        /\ \A i \in 1..Len(response.messages) : response.messages[i].icon # "antenna"

\* C2: a format-valid address whose domain, lower-cased, is in the disposable
\* list never causes a network operation, and its request returns valid=false
\* right after the disposable stage, at either level.
C2_DisposableRejectedOffline ==
    (InDisposableList /\ pc \notin {"idle", "parse", "format"}) =>
        /\ netlog = <<>>
        /\ pc \in {"disposable", "done"}
        /\ Returned => /\ ~response.valid
                       /\ Last(response.messages).text =
                            "Disposable email detected - not suitable for business"

\* C2 witness: a disposable domain written in capitals was rejected at the
\* advanced level.
C2_Witness ==
    /\ Returned
    /\ InDisposableList
    /\ Domain # lower(Domain)
    /\ Advanced
    /\ ~response.valid

\* C3: at the advanced level, once RCPT TO was answered 250 the result is
\* valid=true, whatever the QUIT that follows does.
C3_Rcpt250MeansValid ==
    (Returned /\ Advanced /\ rcpt_code = 250) => response.valid

\* the message names the reply code's class, the reply code, or an exception
\* the probe raised
NamesCodeOrException(m) ==
    \/ m.detail \in raised
    \/ rcpt_code \in {550, 551, 553} /\ m.text = "Mailbox does not exist"
    \/ rcpt_code \in {450, 451, 452} /\ m.text = "Temporary issue with mailbox"
    \/ rcpt_code \notin {0, 250, 550, 551, 553, 450, 451, 452} /\ m.code = rcpt_code

C5_BasicConnectFailureIsPass ==
    (Returned /\ ~Advanced /\ mail_server # <<>>) =>
        /\ response.valid
        /\ LET m == response.messages[Len(response.messages) - 1]
           IN  /\ m.arg = mail_server
               /\ IF connect_outcome = "connected"
                  THEN m.text = "Mail server found and accessible"
                  ELSE m.text \in
                         {"Domain has mail server configured (port 25 may be blocked)",
                          "Mail server found (connection test failed)"}

\* C5 witness: connect_ex raised and the request was still answered
\* valid=true.
C5_Witness ==
    /\ Returned
    /\ ~Advanced
    /\ mail_server # <<>>
    /\ connect_outcome = "gaierror"
    /\ response.valid

NoMailServerReported ==
    \E i \in 1..Len(response.messages) :
        /\ response.messages[i].text = "No mail server found for domain"
        /\ response.messages[i].arg = Domain

\* the basic probe looked for a mail server and found none
BasicNoCandidate ==
    /\ ~Advanced
    /\ FormatValid
    /\ lower(Domain) \notin trusted_domains_basic
    /\ lower(Domain) \notin disposable_domains
    /\ dns_answer = "ok"
    /\ mail_server = <<>>

\* the advanced probe got no MX answer and its fallback host did not resolve
AdvancedNoCandidate ==
    /\ Advanced
    /\ mx_lookup \in {"mx_query_failed", "no_dns_module"}
    /\ GaiNoName.text \in raised

C7_AllFourFields ==
    Returned => DOMAIN response = {"email", "valid", "validation_level", "messages"}

\* C8: the domain-existence stage reports "Domain does not exist" for a
\* name-not-found answer only; a temporary resolver failure or any other
\* resolver error gets an operational-error message; both end the request
\* with valid=false.
C8_NotFoundDistinctFromOperational ==
    (Returned /\ dns_answer \notin {"none", "ok"}) =>
        /\ ~response.valid
        /\ Last(response.messages).icon = "antenna"
        /\ (Last(response.messages).text = "Domain does not exist")
              <=> (dns_answer = "EAI_NONAME")

\* C9: once the probe has returned, at either level, no socket the request
\* opened is still open.
C9_ConnectionsReleased ==
    pc \in {"finish", "done"} => sock # "open" /\ server_sock # "open"

\* the stage a message belongs to, by the emoji validate_api gives it
StageRank(m) ==
    CASE m.icon \in {"check", "cross"} -> 1
      [] m.icon = "warning" -> 2
      [] m.icon = "antenna" -> 3
      [] m.icon \in {"magnifier", "envelope"} -> 4
      [] OTHER -> 5

\* C10, the part about states: the messages are in stage order; a failed
\* format, disposable or domain stage is the last message of a valid=false
\* result and no later stage has touched the network; valid=true needs the
\* format, disposable, domain-existence and probe stages all passed.
C10_StopsAtFirstFailure ==
    /\ \A i \in 1..Len(Messages), j \in 1..Len(Messages) :
          i < j => StageRank(Messages[i]) <= StageRank(Messages[j])
    /\ (Returned /\ email # <<>> /\ ~validate_email_format(email)) =>
          /\ ~response.valid
          /\ Len(response.messages) = 1
          /\ response.messages[1].text = "Invalid email format"
          /\ netlog = <<>>
    /\ (Returned /\ FormatValid /\ lower(Domain) \in disposable_domains) =>
          /\ ~response.valid
          /\ Len(response.messages) = 2
          /\ StageRank(Last(response.messages)) = 2
          /\ netlog = <<>>
    /\ (Returned /\ dns_answer \notin {"none", "ok"}) =>
          /\ ~response.valid
          /\ StageRank(Last(response.messages)) = 3
          /\ Len(netlog) = 1
    /\ (Returned /\ dns_answer = "ok" /\ ~smtp_valid) =>
          /\ ~response.valid
          /\ Last(response.messages) = with_icon("envelope", smtp_msg)
    /\ (Returned /\ response.valid) =>
          /\ FormatValid
          /\ lower(Domain) \notin disposable_domains
          /\ dns_answer = "ok"
          /\ smtp_valid

\* C10: the pipeline is additive and stops at the first failure: every step
\* leaves the messages it found in place and only appends to them, and the
\* states obey C10_StopsAtFirstFailure.
C10_AdditivePipeline ==
    /\ []C10_StopsAtFirstFailure
    /\ [][IsPrefix(Messages, Messages')]_vars

\* C10 witness: a request went through all four stages and failed in the
\* last one, after earlier messages had been appended.
C10_Witness ==
    /\ Returned
    /\ dns_answer = "ok"
    /\ ~response.valid
    /\ Len(response.messages) = 4
    /\ Len(netlog) > 1

\* get_mx_records has been called and has returned
MxRecordsReturned == mx_answers # <<>> /\ pc \in {"basic_connect", "finish", "done"}

\* the hostnames get_mx_records has asked the resolver for, in order: the
\* lookup of validate_email_domain comes first in netlog, and nothing but
\* lookups follows until get_mx_records returns
MxLookups == [i \in 1..Len(mx_answers) |-> netlog[i + 1]]

\* C11: get_mx_records asks the resolver, and nothing else, for
\* mail.<domain>, smtp.<domain>, mx.<domain>, mx1.<domain> and the domain, in
\* that order; it returns the first hostname that resolves, whatever the
\* earlier hostnames answered (name-not-found or any other resolver error);
\* and it returns no candidate only when all five were tried and none
\* resolved.
C11_FirstResolvingHostWins ==
    MxRecordsReturned =>
        /\ \A i \in 1..Len(mx_answers) :
              MxLookups[i] = NetOp("gethostbyname", mail_prefixes(Domain)[i])
        /\ \A i \in 1..(Len(mx_answers) - 1) : mx_answers[i] # "ok"
        /\ Last(mx_answers) = "ok" => mail_server = mail_prefixes(Domain)[Len(mx_answers)]
        /\ Last(mx_answers) # "ok" =>
              /\ mail_server = <<>>
              /\ Len(mx_answers) = Len(mail_prefixes(Domain))

\* the probe returned at its trusted-domain test
ShortCircuited == smtp_msg.text = "Trusted domain"

\* C12: the trust decision does not depend on the level: whichever probe
\* ran, it short-circuited the domain as trusted exactly when the basic
\* probe's test accepts the domain and exactly when the advanced probe's test
\* accepts it.
C12_TrustSameAtBothLevels ==
    (pc \in {"finish", "done"} /\ dns_answer = "ok") =>
        /\ ShortCircuited <=> lower(Domain) \in trusted_domains_basic
        /\ ShortCircuited <=> lower(Domain) \in trusted_domains_improved

=============================================================================
